---- MODULE Spec2Model ----
(***************************************************************************)
(* A model of the key-combination capture tool: the capture driver         *)
(* (capture_key_combo), the full-sweep orchestrator                        *)
(* (generate_key_combos.py), the retry orchestrator                        *)
(* (retry_failed_combos.py) and the result store they read and write.      *)
(***************************************************************************)
EXTENDS Integers, Sequences, FiniteSets, TLC

(***************************************************************************)
(* Bounds of the model.                                                    *)
(***************************************************************************)
\* how many keys of US_KEYS the orchestrators enumerate
MaxKeys == 1
\* longest list of records a store file holds when a run starts
MaxStore == 2
\* longest list handed to merge_results when it is checked on its own
MaxMergeLen == 2

(***************************************************************************)
(* The catalogs (generate_key_combos.py 51-79).  The grave accent key      *)
(* (U+0060) is written "grave": it is one character that is neither a      *)
(* letter nor a digit.                                                     *)
(***************************************************************************)
US_KEYS ==
    << "a", "b", "c", "d", "e", "f", "g", "h", "i", "j", "k", "l", "m",
       "n", "o", "p", "q", "r", "s", "t", "u", "v", "w", "x", "y", "z",
       "0", "1", "2", "3", "4", "5", "6", "7", "8", "9",
       "grave", "-", "=", "[", "]", "\\", ";", "'", ",", ".", "/",
       "space", "enter", "tab", "backspace", "escape",
       "up", "down", "left", "right",
       "f1", "f2", "f3", "f4", "f5", "f6", "f7", "f8", "f9", "f10", "f11", "f12",
       "home", "end", "page up", "page down", "insert", "delete" >>

\* (ctrl, shift, alt)
MODIFIERS ==
    << <<FALSE, FALSE, FALSE>>, <<TRUE, FALSE, FALSE>>, <<FALSE, TRUE, FALSE>>,
       <<FALSE, FALSE, TRUE>>,  <<TRUE, TRUE, FALSE>>,  <<TRUE, FALSE, TRUE>>,
       <<FALSE, TRUE, TRUE>>,   <<TRUE, TRUE, TRUE>> >>

Min(a, b) == IF a <= b THEN a ELSE b

Range(s) == { s[i] : i \in DOMAIN s }

\* the part of each catalog the orchestrators of the model enumerate
Keys == SubSeq(US_KEYS, 1, Min(MaxKeys, Len(US_KEYS)))
\* (no modifier, and Ctrl)
Mods == << MODIFIERS[1], MODIFIERS[2] >>

\* key names that are not in the catalog, for the driver and the mapper
OtherNames == { "", "~", "caps lock", "ctrl+c", "f13", "f0", "f01", "F1", "A", "ab" }

(***************************************************************************)
(* Characters of a key name.                                               *)
(***************************************************************************)
Chars(k) ==
    CASE k = "" -> << >>
      [] k = "space" -> << "s", "p", "a", "c", "e" >>
      [] k = "enter" -> << "e", "n", "t", "e", "r" >>
      [] k = "tab" -> << "t", "a", "b" >>
      [] k = "backspace" -> << "b", "a", "c", "k", "s", "p", "a", "c", "e" >>
      [] k = "escape" -> << "e", "s", "c", "a", "p", "e" >>
      [] k = "up" -> << "u", "p" >>
      [] k = "down" -> << "d", "o", "w", "n" >>
      [] k = "left" -> << "l", "e", "f", "t" >>
      [] k = "right" -> << "r", "i", "g", "h", "t" >>
      [] k = "f1" -> << "f", "1" >>
      [] k = "f2" -> << "f", "2" >>
      [] k = "f3" -> << "f", "3" >>
      [] k = "f4" -> << "f", "4" >>
      [] k = "f5" -> << "f", "5" >>
      [] k = "f6" -> << "f", "6" >>
      [] k = "f7" -> << "f", "7" >>
      [] k = "f8" -> << "f", "8" >>
      [] k = "f9" -> << "f", "9" >>
      [] k = "f10" -> << "f", "1", "0" >>
      [] k = "f11" -> << "f", "1", "1" >>
      [] k = "f12" -> << "f", "1", "2" >>
      [] k = "home" -> << "h", "o", "m", "e" >>
      [] k = "end" -> << "e", "n", "d" >>
      [] k = "page up" -> << "p", "a", "g", "e", " ", "u", "p" >>
      [] k = "page down" -> << "p", "a", "g", "e", " ", "d", "o", "w", "n" >>
      [] k = "insert" -> << "i", "n", "s", "e", "r", "t" >>
      [] k = "delete" -> << "d", "e", "l", "e", "t", "e" >>
      [] k = "caps lock" -> << "c", "a", "p", "s", " ", "l", "o", "c", "k" >>
      [] k = "ctrl+c" -> << "c", "t", "r", "l", "+", "c" >>
      [] k = "f13" -> << "f", "1", "3" >>
      [] k = "f0" -> << "f", "0" >>
      [] k = "f01" -> << "f", "0", "1" >>
      [] k = "F1" -> << "F", "1" >>
      [] k = "ab" -> << "a", "b" >>
      [] OTHER -> << k >>

Digits == << "0", "1", "2", "3", "4", "5", "6", "7", "8", "9" >>
LowerLetters ==
    << "a", "b", "c", "d", "e", "f", "g", "h", "i", "j", "k", "l", "m",
       "n", "o", "p", "q", "r", "s", "t", "u", "v", "w", "x", "y", "z" >>
UpperLetters ==
    << "A", "B", "C", "D", "E", "F", "G", "H", "I", "J", "K", "L", "M",
       "N", "O", "P", "Q", "R", "S", "T", "U", "V", "W", "X", "Y", "Z" >>

IndexIn(s, c) == CHOOSE i \in DOMAIN s : s[i] = c

IsDigit(c) == c \in Range(Digits)
IsLetter(c) == c \in Range(LowerLetters) \cup Range(UpperLetters)

\* str.isalnum(), str.isalpha(): non-empty and every character of the class
isalnum(k) == Chars(k) # << >> /\ \A i \in DOMAIN Chars(k) : IsDigit(Chars(k)[i]) \/ IsLetter(Chars(k)[i])
isalpha(k) == Chars(k) # << >> /\ \A i \in DOMAIN Chars(k) : IsLetter(Chars(k)[i])

\* str.lower() of one character
LowerChar(c) == IF c \in Range(UpperLetters) THEN LowerLetters[IndexIn(UpperLetters, c)] ELSE c
lower(k) == [ i \in DOMAIN Chars(k) |-> LowerChar(Chars(k)[i]) ]

\* int(s) of a string of decimal digits; DigitsOnly says whether int() accepts it
\* (int() accepts leading zeros, as in "f01"; it also accepts a sign, surrounding
\* blanks and underscores between digits: no name used here has any)
DigitsOnly(cs) == cs # << >> /\ \A i \in DOMAIN cs : IsDigit(cs[i])
RECURSIVE IntOf(_)
IntOf(cs) ==
    IF cs = << >> THEN 0
    ELSE 10 * IntOf(SubSeq(cs, 1, Len(cs) - 1)) + (IndexIn(Digits, cs[Len(cs)]) - 1)

(***************************************************************************)
(* Key Mapper (generate_key_combos.py 100-150).  The backend's             *)
(* representation is a Key (symbolic constant) or a KeyCode (character);   *)
(* NoKey models the None the mapper returns for a name it cannot map.      *)
(***************************************************************************)
NoKey == [ kind |-> "None", v |-> << >> ]
KeyConst(name) == [ kind |-> "Key", v |-> name ]
KeyCodeFromChar(cs) == [ kind |-> "KeyCode", v |-> cs ]

special_map ==
    [ k \in { "space", "enter", "tab", "backspace", "escape", "up", "down", "left",
              "right", "home", "end", "page up", "page down", "insert", "delete" } |->
        CASE k = "space" -> << "s", "p", "a", "c", "e" >>
          [] k = "enter" -> << "e", "n", "t", "e", "r" >>
          [] k = "tab" -> << "t", "a", "b" >>
          [] k = "backspace" -> << "b", "a", "c", "k", "s", "p", "a", "c", "e" >>
          [] k = "escape" -> << "e", "s", "c" >>
          [] k = "up" -> << "u", "p" >>
          [] k = "down" -> << "d", "o", "w", "n" >>
          [] k = "left" -> << "l", "e", "f", "t" >>
          [] k = "right" -> << "r", "i", "g", "h", "t" >>
          [] k = "home" -> << "h", "o", "m", "e" >>
          [] k = "end" -> << "e", "n", "d" >>
          [] k = "page up" -> << "p", "a", "g", "e", "_", "u", "p" >>
          [] k = "page down" -> << "p", "a", "g", "e", "_", "d", "o", "w", "n" >>
          [] k = "insert" -> << "i", "n", "s", "e", "r", "t" >>
          [] k = "delete" -> << "d", "e", "l", "e", "t", "e" >> ]

symbol_map == { "grave", "-", "=", "[", "]", "\\", ";", "'", ",", ".", "/" }

\* the decimal digits of n, 1 <= n <= 12, as in f'f{num}'
FName(n) == IF n < 10 THEN << "f", Digits[n + 1] >> ELSE << "f", "1", Digits[n - 10 + 1] >>

\* a function-key branch that does not parse the suffix
IsFunctionKey_NoParse(k) == Chars(k) # << >> /\ Chars(k)[1] = "f"

\* the function-key branch returns only for key[1:] an integer in 1..12
IsFunctionKey(k) ==
    /\ Chars(k) # << >>
    /\ Chars(k)[1] = "f"
    /\ DigitsOnly(Tail(Chars(k)))
    /\ IntOf(Tail(Chars(k))) >= 1
    /\ IntOf(Tail(Chars(k))) <= 12

map_key_to_pynput(k) ==
    IF k \in DOMAIN special_map THEN KeyConst(special_map[k])
    ELSE IF IsFunctionKey(k) THEN KeyConst(FName(IntOf(Tail(Chars(k)))))
    ELSE IF isalnum(k) THEN KeyCodeFromChar(IF isalpha(k) THEN lower(k) ELSE Chars(k))
    ELSE IF k \in symbol_map THEN KeyCodeFromChar(Chars(k))
    ELSE NoKey

(***************************************************************************)
(* Values.  An optional integer is << >> (None, or the field absent) or    *)
(* << n >>.  A JSON value the helper may print is kept by its type, its    *)
(* number of entries (what Python's truth test looks at) and the three     *)
(* fields the orchestrators read.                                          *)
(***************************************************************************)
None == [ t |-> "None", size |-> 0, vk |-> << >>, ascii |-> << >>, unicode |-> << >> ]
\* {}
JEmpty == [ t |-> "dict", size |-> 0, vk |-> << >>, ascii |-> << >>, unicode |-> << >> ]
\* {"ascii": 97}
JNoVk == [ t |-> "dict", size |-> 1, vk |-> << >>, ascii |-> << 97 >>, unicode |-> << >> ]
\* [65]
JList == [ t |-> "list", size |-> 1, vk |-> << >>, ascii |-> << >>, unicode |-> << >> ]
\* {"vk": 65}
JVk == [ t |-> "dict", size |-> 1, vk |-> << 65 >>, ascii |-> << >>, unicode |-> << >> ]
\* {"vk": 65, "ascii": 97, "unicode": 97}
JFull == [ t |-> "dict", size |-> 3, vk |-> << 65 >>, ascii |-> << 97 >>, unicode |-> << 97 >> ]

\* {"vk": 17, "ascii": 0, "unicode": 0}: a key that gives no character
JZero == [ t |-> "dict", size |-> 3, vk |-> << 17 >>, ascii |-> << 0 >>, unicode |-> << 0 >> ]

\* what the helper's standard output may hold once stripped
Stdouts ==
    { [ text |-> "empty", val |-> None ], [ text |-> "garbage", val |-> None ] }
    \cup { [ text |-> "json", val |-> v ] : v \in { JEmpty, JNoVk, JList, JVk, JFull, JZero } }

\* Python's truth test of the driver's return value: `if captured:`
Truthy(v) == v.t # "None" /\ v.size > 0
\* captured['vk'] evaluates (a dict that has the key)
HasVk(v) == v.t = "dict" /\ v.vk # << >>

(***************************************************************************)
(* Records of the store.  An entry of the "combinations" list is a dict    *)
(* with the fields below, or (dict = FALSE) some other JSON value.         *)
(***************************************************************************)
\* format(n, 'X'): the digits of n to the base 16, in upper case, as characters
HexDigits == Digits \o SubSeq(UpperLetters, 1, 6)
RECURSIVE HexOf(_)
HexOf(n) ==
    IF n < 16 THEN << HexDigits[n + 1] >>
    ELSE HexOf(n \div 16) \o << HexDigits[(n % 16) + 1] >>
\* the 0 flag and the width of the format: zeros in front, up to width characters
RECURSIVE ZeroPad(_, _)
ZeroPad(cs, width) == IF Len(cs) >= width THEN cs ELSE ZeroPad(<< "0" >> \o cs, width)
\* f"0x{n:02X}" and f"0x{n:04X}"
FormatHex(n, width) == << "0", "x" >> \o ZeroPad(HexOf(n), width)

\* f"0x{captured.get(f, 0):0wX}" if captured.get(f) else None: the condition is
\* Python's truth test of the value, which None and 0 both fail
OptHex(opt, width) ==
    IF opt # << >> /\ opt[1] # 0 THEN << FormatHex(opt[1], width) >> ELSE << >>

\* a string field is << >> (None) or << its characters >>
Rec(k, c, s, a, vk, asc, uni) ==
    [ dict |-> TRUE, key |-> k, ctrl |-> c, shift |-> s, alt |-> a,
      vk |-> << FormatHex(vk, 2) >>, vk_decimal |-> vk, ascii |-> asc, unicode |-> uni,
      ascii_hex |-> OptHex(asc, 2), unicode_hex |-> OptHex(uni, 4) ]
NonDict ==
    [ dict |-> FALSE, key |-> "", ctrl |-> FALSE, shift |-> FALSE, alt |-> FALSE,
      vk |-> << >>, vk_decimal |-> 0, ascii |-> << >>, unicode |-> << >>,
      ascii_hex |-> << >>, unicode_hex |-> << >> ]

\* a result dict that records no modifier
BuildResult_DropsModifiers(k, c, s, a, captured) ==
    Rec(k, FALSE, FALSE, FALSE, captured.vk[1], captured.ascii, captured.unicode)

\* the result dict both orchestrators build from a capture
\* (generate_key_combos.py 381-395, retry_failed_combos.py 118-132)
BuildResult(k, c, s, a, captured) ==
    Rec(k, c, s, a, captured.vk[1], captured.ascii, captured.unicode)

\* the Combination of a record
combo_key(r) == << r.key, r.ctrl, r.shift, r.alt >>

CombosOf(recs) == { combo_key(recs[i]) : i \in { j \in DOMAIN recs : recs[j].dict } }

\* the nested loops of both generators (generate_key_combos.py 361-362,
\* retry_failed_combos.py 78-80): for each key, for each modifier state, in order
RECURSIVE ForModifiers(_, _)
ForModifiers(key, mods) ==
    IF mods = << >> THEN << >>
    ELSE << << key, Head(mods)[1], Head(mods)[2], Head(mods)[3] >> >>
         \o ForModifiers(key, Tail(mods))
RECURSIVE ForKeys(_, _)
ForKeys(keys, mods) ==
    IF keys = << >> THEN << >>
    ELSE ForModifiers(Head(keys), mods) \o ForKeys(Tail(keys), mods)
CombinationsOf(keys, mods) == ForKeys(keys, mods)

\* the combination space of the orchestrators of the model, in the order both
\* generators enumerate it
generate_all_combinations == CombinationsOf(Keys, Mods)

Space == Range(generate_all_combinations)

(***************************************************************************)
(* The store file: absent, present but not loadable (not JSON, or no       *)
(* "combinations" list in it), or a snapshot.                              *)
(***************************************************************************)
\* generated_at is "earlier" in a snapshot written before the run, "now" in one the
\* run writes (time.strftime at the moment the snapshot is built)
AbsentFile ==
    [ state |-> "absent", generated_at |-> "", total_combinations |-> 0, combinations |-> << >> ]
CorruptFile ==
    [ state |-> "corrupt", generated_at |-> "", total_combinations |-> 0, combinations |-> << >> ]
\* open(path, 'w') has truncated the file and nothing is written yet
TruncatedFile ==
    [ state |-> "truncated", generated_at |-> "", total_combinations |-> 0,
      combinations |-> << >> ]
Snapshot(total, recs) ==
    [ state |-> "ok", generated_at |-> "earlier", total_combinations |-> total,
      combinations |-> recs ]
\* the dict either orchestrator dumps (generate_key_combos.py 459-463,
\* retry_failed_combos.py 245-250)
NewSnapshot(total, recs) == [ Snapshot(total, recs) EXCEPT !.generated_at = "now" ]

\* a load that skips the entries it cannot read and keeps the others
load_SkipsMalformed(file) ==
    IF file.state # "ok" THEN { } ELSE CombosOf(file.combinations)

\* load_existing_combinations (retry_failed_combos.py 53-73): any entry that is
\* not a well-formed dict raises inside the try, and the result is the empty set
load_existing_combinations(file) ==
    IF file.state # "ok" THEN { }
    ELSE IF \E i \in DOMAIN file.combinations : ~file.combinations[i].dict THEN { }
    ELSE CombosOf(file.combinations)

\* a diff that forgets the existing set
find_failed_IgnoresExisting(existing) == generate_all_combinations

\* find_failed_combinations (retry_failed_combos.py 83-87)
find_failed_combinations(existing) ==
    SelectSeq(generate_all_combinations, LAMBDA c : c \notin existing)

(***************************************************************************)
(* The gap report (analyze_failed.py 61-94), which has its own copies of   *)
(* the two catalogs, equal to the generator's.                             *)
(***************************************************************************)
\* lines 65-68: the set comprehension reads key and modifiers of every entry
analyze_captured(file) == { combo_key(file.combinations[i]) : i \in DOMAIN file.combinations }
\* lines 71-75
analyze_all_combos == { << k, m[1], m[2], m[3] >> : k \in Range(Keys), m \in Range(Mods) }
\* line 78: sorted(all_combos - captured), taken as a set
analyze_failed(file) == analyze_all_combos \ analyze_captured(file)

(***************************************************************************)
(* merge_results (retry_failed_combos.py 148-182).                         *)
(***************************************************************************)
RECURSIVE AddNew(_, _, _)
AddNew(existing_results, existing_keys, new_results) ==
    IF new_results = << >> THEN existing_results
    ELSE LET result == Head(new_results)
         IN  IF result.dict /\ combo_key(result) \notin existing_keys
             THEN AddNew(Append(existing_results, result),
                         existing_keys \cup { combo_key(result) }, Tail(new_results))
             ELSE AddNew(existing_results, existing_keys, Tail(new_results))

\* a merge in which a new record replaces the existing one of its Combination
MergeLists_NewWins(existing_results, new_results) ==
    AddNew(SelectSeq(existing_results,
                     LAMBDA r : ~r.dict \/ combo_key(r) \notin CombosOf(new_results)),
           { combo_key(existing_results[i]) :
               i \in { j \in DOMAIN existing_results :
                         /\ existing_results[j].dict
                         /\ combo_key(existing_results[j]) \notin CombosOf(new_results) } },
           new_results)

\* a merge that appends every new dict, whatever the existing list holds
MergeLists_AppendsAll(existing_results, new_results) ==
    existing_results \o SelectSeq(new_results, LAMBDA r : r.dict)

\* lines 161-182: the list built from the existing list and the new results
MergeLists(existing_results, new_results) ==
    AddNew(existing_results, CombosOf(existing_results), new_results)

\* a merge that does not read the file
ExistingResults_Unread(file) == << >>

\* lines 150-159: the existing list is read from the file, empty when it cannot be
ExistingResults(file) == IF file.state = "ok" THEN file.combinations ELSE << >>

\* a merge that keeps of an existing record its Combination and its vk only
merge_results_RebuildsExisting(file, new_results) ==
    MergeLists([ i \in DOMAIN ExistingResults(file) |->
                   LET r == ExistingResults(file)[i]
                   IN  IF r.dict
                       THEN Rec(r.key, r.ctrl, r.shift, r.alt, r.vk_decimal, << >>, << >>)
                       ELSE r ],
               new_results)

merge_results(file, new_results) == MergeLists(ExistingResults(file), new_results)

(***************************************************************************)
(* Sorting.  Python compares the sort keys as tuples: booleans as 0 and 1, *)
(* strings by code point.  A key name is rendered as the places of its     *)
(* characters in AsciiOrder, closed by 0, so that a prefix sorts first.    *)
(***************************************************************************)
AsciiOrder ==
    << " ", "'", "+", ",", "-", ".", "/" >> \o Digits \o << ";", "=" >>
    \o UpperLetters \o << "[", "\\", "]", "_", "grave" >> \o LowerLetters \o << "~" >>

Ord(c) == IndexIn(AsciiOrder, c)
StrKey(k) == [ i \in DOMAIN Chars(k) |-> Ord(Chars(k)[i]) ] \o << 0 >>
B(b) == IF b THEN 1 ELSE 0

RECURSIVE SeqLess(_, _)
SeqLess(x, y) ==
    IF y = << >> THEN FALSE
    ELSE IF x = << >> THEN TRUE
    ELSE IF Head(x) # Head(y) THEN Head(x) < Head(y)
    ELSE SeqLess(Tail(x), Tail(y))

\* generate_key_combos.py 448-453
SweepSortKey(r) == << B(r.ctrl), B(r.shift), B(r.alt) >> \o StrKey(r.key)
\* retry_failed_combos.py 248-249
RetrySortKey(r) == StrKey(r.key) \o << B(r.ctrl), B(r.shift), B(r.alt) >>

\* which sort key an orchestrator uses
SortKey(r, order) == IF order = "sweep" THEN SweepSortKey(r) ELSE RetrySortKey(r)

\* a stable insertion sort, as list.sort and sorted are stable
RECURSIVE InsertBy(_, _, _)
InsertBy(sorted, r, order) ==
    IF sorted = << >> THEN << r >>
    ELSE IF SeqLess(SortKey(r, order), SortKey(Head(sorted), order)) THEN << r >> \o sorted
    ELSE << Head(sorted) >> \o InsertBy(Tail(sorted), r, order)

RECURSIVE SortBy(_, _)
SortBy(recs, order) ==
    IF recs = << >> THEN << >>
    ELSE InsertBy(SortBy(SubSeq(recs, 1, Len(recs) - 1), order), recs[Len(recs)], order)

\* the sort key reads the key and the modifiers of each entry: one that is no dict raises
Sortable(recs) == \A i \in DOMAIN recs : recs[i].dict

(***************************************************************************)
(* State.                                                                  *)
(***************************************************************************)
VARIABLES
    prog,            \* which program runs: "sweep", "retry", "driver" (one call), "merge"
    pc,              \* where main and its loop stand
    file,            \* key_combinations.json
    file0,           \* the file as it was when the run started
    existing_combos, \* retry: the set load_existing_combinations returned
    work,            \* the combinations the loop goes through (failed_combos in retry)
    idx,             \* how many of them the loop has taken (current, idx)
    results,         \* results / new_results
    all_results,     \* retry: what merge_results returned
    output_data,     \* retry: the snapshot built before the file is opened
    successful,
    failed,
    driven,          \* the combinations capture_key_combo was called for, in order
    exit_code,       \* << >> while running, << code >> once the process has ended
    summary,         \* the loop's closing "... successful, ... failed" line was logged
    writes,          \* how many snapshots have been dumped into the file
    txt_written,     \* key_combinations.txt has been written by this run
    exe_path,        \* what find_capture_keys_exe returned (NoPath: nothing yet, or None)
    prompted,        \* the confirmation prompt has been shown
    response,        \* retry: input().strip().lower(), as characters
    cancelled,       \* the run logged that the user cancelled
    outcomes,        \* for each call of the loop, in order: it returned a capture
    dpc,             \* where capture_key_combo stands
    dkey,            \* its argument key
    dmods,           \* its arguments (ctrl, shift, alt)
    proc,            \* the helper process: "none", "running", "exited", "killed"
    pynput_key,      \* what the Key Mapper returned
    kbEvents,        \* the presses and releases this call has issued, in order
    elapsed,         \* seconds proc.communicate(timeout=3) has waited
    captured,        \* the call's return value
    warned,          \* the call logged that it found no console window
    launched,        \* how many helper processes the run has started
    logged           \* the failure the call has logged: "" (none), "unmapped", "timeout",
                     \* "empty", "unparsable", "error"

orchVars ==
    << prog, pc, file, file0, existing_combos, work, idx, results, all_results,
       output_data, successful, failed, driven, exit_code, summary, writes, txt_written,
       exe_path, prompted, response, cancelled, outcomes >>
argVars == << dkey, dmods >>
drvVars ==
    << dpc, dkey, dmods, proc, pynput_key, kbEvents, elapsed, captured, warned, launched,
       logged >>
vars == << orchVars, drvVars >>

(***************************************************************************)
(* Capture Session Driver: capture_key_combo                               *)
(* (generate_key_combos.py 152-348).                                       *)
(***************************************************************************)
\* proc.communicate(timeout=3), line 302
communicate_timeout == 3

CtrlKey == KeyConst(<< "ctrl" >>)
ShiftKey == KeyConst(<< "shift" >>)
AltKey == KeyConst(<< "alt" >>)
Press(k) == [ op |-> "press", key |-> k ]
Release(k) == [ op |-> "release", key |-> k ]

\* a kill that is forgotten
Kill_Forgotten(p) == p

\* proc.kill() followed by proc.communicate(): a running helper is ended, one that
\* has exited stays as it is
Kill(p) == IF p = "running" THEN "killed" ELSE p

\* lines 161-174: Popen, then the warm-up sleep
Launch ==
    /\ dpc = "start"
    /\ proc' = "running"
    /\ launched' = launched + 1
    /\ dpc' = "map"
    /\ UNCHANGED << orchVars, argVars, logged, pynput_key, kbEvents, elapsed, captured, warned >>

\* line 161 raises (the binary cannot be started): nothing around Popen catches,
\* the exception leaves capture_key_combo
LaunchFails ==
    /\ dpc = "start"
    /\ dpc' = "raised"
    /\ UNCHANGED << orchVars, argVars, launched, logged, proc, pynput_key, kbEvents, elapsed,
                    captured, warned >>

\* the helper ends by itself (it has read an input event, or it has failed)
HelperExit ==
    /\ proc = "running"
    /\ proc' = "exited"
    /\ UNCHANGED << orchVars, argVars, launched, logged, dpc, pynput_key, kbEvents, elapsed, captured, warned >>

\* an unmapped key that is simulated all the same
MapKey_Simulates ==
    /\ dpc = "map"
    /\ pynput_key' = map_key_to_pynput(dkey)
    /\ dpc' = "focus"
    /\ UNCHANGED << orchVars, argVars, launched, logged, proc, kbEvents, elapsed, captured, warned >>

\* lines 176-187: map the key; an unmapped key kills the helper and returns None
MapKey ==
    /\ dpc = "map"
    /\ pynput_key' = map_key_to_pynput(dkey)
    /\ IF map_key_to_pynput(dkey) = NoKey
       THEN /\ proc' = Kill(proc)
            /\ captured' = None
            /\ logged' = "unmapped"
            /\ dpc' = "returned"
       ELSE /\ dpc' = "focus"
            /\ UNCHANGED << proc, captured, logged >>
    /\ UNCHANGED << orchVars, argVars, launched, kbEvents, elapsed, warned >>

\* a focus step that gives the call up when it finds no window
Focus_GivesUp ==
    /\ dpc = "focus"
    /\ \E found_window \in BOOLEAN :
         /\ warned' = ~found_window
         /\ IF found_window
            THEN dpc' = "press_ctrl" /\ UNCHANGED << proc, captured >>
            ELSE dpc' = "returned" /\ proc' = Kill(proc) /\ captured' = None
    /\ UNCHANGED << orchVars, argVars, launched, logged, pynput_key, kbEvents, elapsed >>

\* lines 190-254: look for the helper's window and bring it to the front; when
\* none is found a warning is logged and the call goes on
Focus ==
    /\ dpc = "focus"
    /\ \E found_window \in BOOLEAN : warned' = ~found_window
    /\ dpc' = "press_ctrl"
    /\ UNCHANGED << orchVars, argVars, launched, logged, proc, pynput_key, kbEvents, elapsed, captured >>

\* one line of the press and release sequence: `if flag: kb.<op>(key)`
SimStep(at, flag, event, next) ==
    /\ dpc = at
    /\ kbEvents' = IF flag THEN Append(kbEvents, event) ELSE kbEvents
    /\ dpc' = next
    /\ UNCHANGED << orchVars, argVars, launched, logged, proc, pynput_key, elapsed, captured, warned >>

\* the modifiers released in the order they were pressed: ctrl first
ReleaseCtrl_First == SimStep("release_alt", dmods[1], Release(CtrlKey), "release_shift")

\* lines 261-269
PressCtrl == SimStep("press_ctrl", dmods[1], Press(CtrlKey), "press_shift")
PressShift == SimStep("press_shift", dmods[2], Press(ShiftKey), "press_alt")
PressAlt == SimStep("press_alt", dmods[3], Press(AltKey), "press_key")
\* lines 276-278
PressKey == SimStep("press_key", TRUE, Press(pynput_key), "release_key")
ReleaseKey == SimStep("release_key", TRUE, Release(pynput_key), "release_alt")
\* lines 286-291
ReleaseAlt == SimStep("release_alt", dmods[3], Release(AltKey), "release_shift")
ReleaseShift == SimStep("release_shift", dmods[2], Release(ShiftKey), "release_ctrl")
ReleaseCtrl == SimStep("release_ctrl", dmods[1], Release(CtrlKey), "communicate")

\* lines 309-324: strip, then json.loads when there is any text; the parsed value is
\* returned as it is, empty or unparsable text gives None
ParseOutput(out) == IF out.text = "json" THEN out.val ELSE None
\* what lines 318-324 log: a parse failure, or that there was no output
ParseLog(out) ==
    IF out.text = "json" THEN "" ELSE IF out.text = "empty" THEN "empty" ELSE "unparsable"

\* line 302 returns: the helper has exited and its pipes are drained
CommunicateReturn ==
    /\ dpc = "communicate"
    /\ proc = "exited"
    /\ \E out \in Stdouts :
         /\ captured' = ParseOutput(out)
         /\ logged' = ParseLog(out)
    /\ dpc' = "returned"
    /\ UNCHANGED << orchVars, argVars, launched, proc, pynput_key, kbEvents, elapsed, warned >>

\* line 302 keeps waiting while the helper runs and the timeout has not expired
CommunicateWait ==
    /\ dpc = "communicate"
    /\ proc = "running"
    /\ elapsed < communicate_timeout
    /\ elapsed' = elapsed + 1
    /\ UNCHANGED << orchVars, argVars, launched, logged, dpc, proc, pynput_key, kbEvents, captured, warned >>

\* a wait that gives up and leaves the helper running
CommunicateTimeout_NoKill ==
    /\ dpc = "communicate"
    /\ proc = "running"
    /\ elapsed >= communicate_timeout
    /\ captured' = None
    /\ logged' = "timeout"
    /\ dpc' = "returned"
    /\ UNCHANGED << orchVars, argVars, launched, proc, pynput_key, kbEvents, elapsed, warned >>

\* lines 325-333: TimeoutExpired; the helper is killed, what is left is drained
CommunicateTimeout ==
    /\ dpc = "communicate"
    /\ proc = "running"
    /\ elapsed >= communicate_timeout
    /\ proc' = Kill(proc)
    /\ captured' = None
    /\ logged' = "timeout"
    /\ dpc' = "returned"
    /\ UNCHANGED << orchVars, argVars, launched, pynput_key, kbEvents, elapsed, warned >>

\* the steps inside the try block (lines 189-341)
TrySteps ==
    { "focus", "press_ctrl", "press_shift", "press_alt", "press_key", "release_key",
      "release_alt", "release_shift", "release_ctrl", "communicate" }

\* lines 343-346: a step of the try block raises; the helper is killed and the
\* call falls through to `return None`
DriverException ==
    /\ dpc \in TrySteps
    /\ proc' = Kill(proc)
    /\ captured' = None
    /\ logged' = "error"
    /\ dpc' = "returned"
    /\ UNCHANGED << orchVars, argVars, launched, pynput_key, kbEvents, elapsed, warned >>

DriverStep ==
    \/ Launch
    \/ LaunchFails
    \/ MapKey
    \/ Focus
    \/ PressCtrl
    \/ PressShift
    \/ PressAlt
    \/ PressKey
    \/ ReleaseKey
    \/ ReleaseAlt
    \/ ReleaseShift
    \/ ReleaseCtrl
    \/ CommunicateReturn
    \/ CommunicateWait
    \/ CommunicateTimeout
    \/ DriverException

(***************************************************************************)
(* Orchestrators: main and generate_combinations of generate_key_combos.py *)
(* (350-516), main and retry_failed_combinations of retry_failed_combos.py *)
(* (101-290).                                                              *)
(***************************************************************************)
loopVars == << work, idx, results, successful, failed, driven, summary, outcomes >>
storeVars ==
    << file, file0, existing_combos, all_results, output_data, writes, txt_written >>
promptVars == << exe_path, prompted, response, cancelled >>

Exit(code) == pc' = "exit" /\ exit_code' = << code >>

\* the three places the helper binary is looked for, in this order
ExeLocations ==
    << "zig-out/bin/capture_keys.exe", "capture_keys.exe", "scripts/capture_keys.exe" >>
\* the None that stands for "not found"
NoPath == "None"
\* which of these places hold a binary when a run starts: none, the last one alone,
\* the first two
ExeLayouts == { { }, { ExeLocations[3] }, { ExeLocations[1], ExeLocations[2] } }

\* find_capture_keys_exe (generate_key_combos.py 81-98): the first place that exists
find_capture_keys_exe(exists) ==
    IF ExeLocations[1] \in exists THEN ExeLocations[1]
    ELSE IF ExeLocations[2] \in exists THEN ExeLocations[2]
    ELSE IF ExeLocations[3] \in exists THEN ExeLocations[3]
    ELSE NoPath

\* a check of the helper binary that goes on without one
FindExe_GoesOn ==
    /\ pc = "find_exe"
    /\ \E exists \in ExeLayouts : exe_path' = find_capture_keys_exe(exists)
    /\ pc' = (IF prog = "sweep" THEN "prompt" ELSE "load")
    /\ UNCHANGED << prog, exit_code, loopVars, storeVars, prompted, response, cancelled, drvVars >>

\* find_capture_keys_exe and the check that follows it
\* (generate_key_combos.py 422-429, retry_failed_combos.py 193-200)
FindExe ==
    /\ pc = "find_exe"
    /\ \E exists \in ExeLayouts :
         /\ exe_path' = find_capture_keys_exe(exists)
         /\ IF find_capture_keys_exe(exists) # NoPath
            THEN pc' = (IF prog = "sweep" THEN "prompt" ELSE "load") /\ UNCHANGED exit_code
            ELSE Exit(1)
    /\ UNCHANGED << prog, loopVars, storeVars, prompted, response, cancelled, drvVars >>

\* generate_key_combos.py 434-445, 352-359: Enter starts the sweep, an interrupt ends
\* the run with code 1
SweepPrompt ==
    /\ pc = "prompt"
    /\ prog = "sweep"
    /\ prompted' = TRUE
    /\ \E interrupted \in BOOLEAN :
         /\ cancelled' = interrupted
         /\ IF interrupted
            THEN Exit(1) /\ UNCHANGED work
            ELSE pc' = "loop" /\ work' = generate_all_combinations /\ UNCHANGED exit_code
    /\ UNCHANGED << prog, idx, results, successful, failed, driven, summary, outcomes,
                    storeVars, exe_path, response, drvVars >>

\* retry_failed_combos.py 206-219: load the store, compute the missing combinations
RetryLoad ==
    /\ pc = "load"
    /\ existing_combos' = load_existing_combinations(file)
    /\ work' = find_failed_combinations(load_existing_combinations(file))
    /\ IF find_failed_combinations(load_existing_combinations(file)) = << >>
       THEN Exit(0)
       ELSE pc' = "prompt" /\ UNCHANGED exit_code
    /\ UNCHANGED << prog, idx, results, successful, failed, driven, summary, outcomes,
                    file, file0, all_results, output_data, writes, txt_written, promptVars, drvVars >>

\* the lines the user may type at the retry prompt, as characters
Answers ==
    { << "y" >>, << "Y" >>, << " ", "y", " " >>, << "y", "e", "s" >>, << "n" >>, << >> }

\* str.strip(): blanks are dropped at both ends
RECURSIVE lstrip(_)
lstrip(cs) == IF cs # << >> /\ Head(cs) = " " THEN lstrip(Tail(cs)) ELSE cs
RECURSIVE rstrip(_)
rstrip(cs) ==
    IF cs # << >> /\ cs[Len(cs)] = " " THEN rstrip(SubSeq(cs, 1, Len(cs) - 1)) ELSE cs
strip(cs) == rstrip(lstrip(cs))
\* str.lower() of a line
lower_line(cs) == [ i \in DOMAIN cs |-> LowerChar(cs[i]) ]

\* a prompt whose answer is not looked at
RetryPrompt_AnyAnswer ==
    /\ pc = "prompt"
    /\ prog = "retry"
    /\ prompted' = TRUE
    /\ \E line \in Answers : response' = lower_line(strip(line))
    /\ pc' = "loop"
    /\ UNCHANGED << prog, loopVars, storeVars, exit_code, exe_path, cancelled, drvVars >>

\* retry_failed_combos.py 222-227: anything but "y" ends the run with code 0
\* (an interrupt while input() waits is not caught there and is left out here)
RetryPrompt ==
    /\ pc = "prompt"
    /\ prog = "retry"
    /\ prompted' = TRUE
    /\ \E line \in Answers :
         /\ response' = lower_line(strip(line))
         /\ IF lower_line(strip(line)) # << "y" >>
            THEN Exit(0) /\ cancelled' = TRUE
            ELSE pc' = "loop" /\ UNCHANGED << exit_code, cancelled >>
    /\ UNCHANGED << prog, loopVars, storeVars, exe_path, drvVars >>

\* the loop takes its next combination and calls capture_key_combo
\* (generate_key_combos.py 361-378, retry_failed_combos.py 109-115)
LoopCall ==
    /\ pc = "loop"
    /\ idx < Len(work)
    /\ idx' = idx + 1
    /\ driven' = Append(driven, work[idx + 1])
    /\ dkey' = work[idx + 1][1]
    /\ dmods' = << work[idx + 1][2], work[idx + 1][3], work[idx + 1][4] >>
    /\ dpc' = "start"
    /\ proc' = "none"
    /\ pynput_key' = NoKey
    /\ kbEvents' = << >>
    /\ elapsed' = 0
    /\ captured' = None
    /\ warned' = FALSE
    /\ logged' = ""
    /\ pc' = "in_driver"
    /\ UNCHANGED << prog, work, results, successful, failed, summary, outcomes, exit_code,
                    storeVars, promptVars, launched >>

\* the call has returned (generate_key_combos.py 380-406, retry_failed_combos.py
\* 117-143): a true value is turned into a record, which reads captured['vk'] and
\* raises when the value has none; the exception leaves the loop and main
LoopAccount ==
    /\ pc = "in_driver"
    /\ dpc = "returned"
    /\ prog \in { "sweep", "retry" }
    /\ IF Truthy(captured)
       THEN IF HasVk(captured)
            THEN /\ results' = Append(results, BuildResult(dkey, dmods[1], dmods[2], dmods[3], captured))
                 /\ successful' = successful + 1
                 /\ pc' = "loop"
                 /\ UNCHANGED << failed, exit_code >>
            ELSE /\ pc' = "crashed"
                 /\ exit_code' = << 1 >>
                 /\ UNCHANGED << results, successful, failed >>
       ELSE /\ failed' = failed + 1
            /\ pc' = "loop"
            /\ UNCHANGED << results, successful, exit_code >>
    \* the call is over: its record of issued events is dropped with it
    /\ dpc' = "idle"
    /\ kbEvents' = << >>
    /\ logged' = ""
    /\ outcomes' = Append(outcomes, Truthy(captured) /\ HasVk(captured))
    /\ UNCHANGED << prog, work, idx, driven, summary, storeVars, promptVars,
                    argVars, proc, pynput_key, elapsed, captured, warned, launched >>

\* a loop that may stop after its first combination
LoopEnd_Early ==
    /\ pc = "loop"
    /\ idx >= Min(1, Len(work))
    /\ summary' = TRUE
    /\ pc' = (IF prog = "sweep" THEN "sort" ELSE "check_new")
    /\ UNCHANGED << prog, work, idx, results, successful, failed, driven, outcomes, exit_code,
                    storeVars, promptVars, drvVars >>

\* the call raised (generate_key_combos.py 378, retry_failed_combos.py 115):
\* neither loop nor main has a handler, the run ends with a traceback
LoopEscape ==
    /\ pc = "in_driver"
    /\ dpc = "raised"
    /\ prog \in { "sweep", "retry" }
    /\ pc' = "crashed"
    /\ exit_code' = << 1 >>
    /\ UNCHANGED << prog, loopVars, storeVars, promptVars, drvVars >>

\* the loop is over and its summary line is logged
\* (generate_key_combos.py 408-409, retry_failed_combos.py 145-146)
LoopEnd ==
    /\ pc = "loop"
    /\ idx = Len(work)
    /\ summary' = TRUE
    /\ pc' = (IF prog = "sweep" THEN "sort" ELSE "check_new")
    /\ UNCHANGED << prog, work, idx, results, successful, failed, driven, outcomes, exit_code,
                    storeVars, promptVars, drvVars >>

\* generate_key_combos.py 447-453
SweepSort ==
    /\ pc = "sort"
    /\ results' = SortBy(results, "sweep")
    /\ pc' = "write_open"
    /\ UNCHANGED << prog, work, idx, successful, failed, driven, summary, outcomes, exit_code,
                    storeVars, promptVars, drvVars >>

\* a retry that merges and writes whether or not it has a new result
RetryCheckNew_AlwaysMerges ==
    /\ pc = "check_new"
    /\ pc' = "merge"
    /\ UNCHANGED << prog, exit_code, loopVars, storeVars, promptVars, drvVars >>

\* retry_failed_combos.py 235-238: nothing new, nothing written
RetryCheckNew ==
    /\ pc = "check_new"
    /\ IF results = << >>
       THEN Exit(0)
       ELSE pc' = "merge" /\ UNCHANGED exit_code
    /\ UNCHANGED << prog, loopVars, storeVars, promptVars, drvVars >>

\* a merge that returns the new results alone
RetryMerge_DropsExisting ==
    /\ pc = "merge"
    /\ all_results' = results
    /\ pc' = "build_output"
    /\ UNCHANGED << prog, loopVars, exit_code, file, file0, existing_combos,
                    output_data, writes, txt_written, promptVars, drvVars >>

\* retry_failed_combos.py 240-242
RetryMerge ==
    /\ pc = "merge"
    /\ all_results' = merge_results(file, results)
    /\ pc' = "build_output"
    /\ UNCHANGED << prog, loopVars, exit_code, file, file0, existing_combos,
                    output_data, writes, txt_written, promptVars, drvVars >>

\* a snapshot whose count is the number of new results
RetryBuildOutput_CountsNew ==
    /\ pc = "build_output"
    /\ prog = "retry"
    /\ IF Sortable(all_results)
       THEN /\ output_data' = NewSnapshot(Len(results), SortBy(all_results, "retry"))
            /\ pc' = "write_open"
            /\ UNCHANGED exit_code
       ELSE /\ pc' = "crashed"
            /\ exit_code' = << 1 >>
            /\ UNCHANGED output_data
    /\ UNCHANGED << prog, loopVars, file, file0, existing_combos, all_results, writes, txt_written,
                    promptVars, drvVars >>

\* retry_failed_combos.py 245-250: the snapshot is built, sorted, before the file
\* is opened; an entry the sort key cannot read raises
RetryBuildOutput ==
    /\ pc = "build_output"
    /\ prog = "retry"
    /\ IF Sortable(all_results)
       THEN /\ output_data' = NewSnapshot(Len(all_results), SortBy(all_results, "retry"))
            /\ pc' = "write_open"
            /\ UNCHANGED exit_code
       ELSE /\ pc' = "crashed"
            /\ exit_code' = << 1 >>
            /\ UNCHANGED output_data
    /\ UNCHANGED << prog, loopVars, file, file0, existing_combos, all_results, writes, txt_written,
                    promptVars, drvVars >>

\* open(..., 'w') (generate_key_combos.py 458, retry_failed_combos.py 253)
WriteOpen ==
    /\ pc = "write_open"
    /\ file' = TruncatedFile
    /\ pc' = "write_dump"
    /\ UNCHANGED << prog, loopVars, exit_code, file0, existing_combos, all_results,
                    output_data, writes, txt_written, promptVars, drvVars >>

\* a sweep that writes its results after the records the file held
WriteDump_KeepsPrior ==
    /\ pc = "write_dump"
    /\ file' = (IF prog = "sweep"
                THEN NewSnapshot(Len(file0.combinations) + Len(results), file0.combinations \o results)
                ELSE output_data)
    /\ writes' = writes + 1
    /\ pc' = "written"
    /\ UNCHANGED << prog, loopVars, exit_code, file0, existing_combos, all_results,
                    output_data, txt_written, promptVars, drvVars >>

\* json.dump and the close (generate_key_combos.py 459-463, retry_failed_combos.py 254)
WriteDump ==
    /\ pc = "write_dump"
    /\ file' = (IF prog = "sweep" THEN NewSnapshot(Len(results), results) ELSE output_data)
    /\ writes' = writes + 1
    /\ pc' = "written"
    /\ UNCHANGED << prog, loopVars, exit_code, file0, existing_combos, all_results,
                    output_data, txt_written, promptVars, drvVars >>

\* retry_failed_combos.py 280: f"{combo.get('ascii', 'N/A'):4}" formats the value
\* the record holds under the key; None does not take a width (TypeError)
TextLineFormats(r) == r.ascii # << >> /\ r.unicode # << >>

\* the text file is opened and written, and main returns 0 (generate_key_combos.py
\* 470-516, retry_failed_combos.py 259-290); the sweep prints ascii=None and
\* unicode=None, the retry raises on the first record that holds None
Finish ==
    /\ pc = "written"
    /\ txt_written' = TRUE
    /\ IF prog = "retry" /\ \E i \in DOMAIN output_data.combinations :
                               ~TextLineFormats(output_data.combinations[i])
       THEN pc' = "crashed" /\ exit_code' = << 1 >>
       ELSE Exit(0)
    /\ UNCHANGED << prog, loopVars, file, file0, existing_combos, all_results, output_data,
                    writes, promptVars, drvVars >>

(***************************************************************************)
(* Specifications.                                                         *)
(***************************************************************************)
\* all sequences over S of length at most n
BoundedSeqs(S, n) == UNION { [ 1 .. m -> S ] : m \in 0 .. n }

\* the entries a store file may hold when a run starts: records of the first two
\* combinations of the space, and an entry that is no dict
StoreCombos == { generate_all_combinations[1], generate_all_combinations[2] }
StoreRecs ==
    { Rec(c[1], c[2], c[3], c[4], 66, << 98 >>, << 98 >>) : c \in StoreCombos } \cup { NonDict }
StoreFiles ==
    { AbsentFile, CorruptFile }
    \cup { Snapshot(Len(recs), recs) : recs \in BoundedSeqs(StoreRecs, MaxStore) }
\* the sweep never reads the file: it starts on no file, or on a file of one record
SweepPriorFiles ==
    { AbsentFile, Snapshot(1, << Rec("a", FALSE, FALSE, FALSE, 66, << >>, << >>) >>) }

DriverIdle ==
    /\ dpc = "idle"
    /\ dkey = ""
    /\ dmods = << FALSE, FALSE, FALSE >>
    /\ proc = "none"
    /\ pynput_key = NoKey
    /\ kbEvents = << >>
    /\ elapsed = 0
    /\ captured = None
    /\ warned = FALSE
    /\ launched = 0
    /\ logged = ""

OrchFresh ==
    /\ existing_combos = { }
    /\ work = << >>
    /\ idx = 0
    /\ results = << >>
    /\ all_results = << >>
    /\ output_data = AbsentFile
    /\ successful = 0
    /\ failed = 0
    /\ driven = << >>
    /\ exit_code = << >>
    /\ summary = FALSE
    /\ writes = 0
    /\ txt_written = FALSE
    /\ outcomes = << >>

\* nothing has been looked for or asked yet
PromptFresh ==
    /\ exe_path = NoPath
    /\ prompted = FALSE
    /\ response = << >>
    /\ cancelled = FALSE

\* the helper binary was found and the user let the run go on
PromptPassed ==
    /\ exe_path \in Range(ExeLocations)
    /\ prompted = TRUE
    /\ response = (IF prog = "retry" THEN << "y" >> ELSE << >>)
    /\ cancelled = FALSE

\* either orchestrator, started on a store file
Init ==
    /\ prog \in { "sweep", "retry" }
    /\ pc = "find_exe"
    /\ PromptFresh
    /\ file \in (IF prog = "sweep" THEN SweepPriorFiles ELSE StoreFiles)
    /\ file0 = file
    /\ OrchFresh
    /\ DriverIdle

Next ==
    \/ FindExe
    \/ SweepPrompt
    \/ RetryLoad
    \/ RetryPrompt
    \/ LoopCall
    \/ DriverStep
    \/ HelperExit
    \/ LoopAccount
    \/ LoopEscape
    \/ LoopEnd
    \/ SweepSort
    \/ RetryCheckNew
    \/ RetryMerge
    \/ RetryBuildOutput
    \/ WriteOpen
    \/ WriteDump
    \/ Finish

Spec == Init /\ [][Next]_vars

\* one call of capture_key_combo, for any key name and any modifier state
InitDriver ==
    /\ prog = "driver"
    /\ pc = "in_driver"
    /\ file = AbsentFile
    /\ file0 = file
    /\ OrchFresh
    /\ exe_path = ExeLocations[1]
    /\ prompted = TRUE
    /\ response = << >>
    /\ cancelled = FALSE
    /\ dpc = "start"
    /\ dkey \in Range(US_KEYS) \cup OtherNames
    /\ dmods \in Range(MODIFIERS)
    /\ proc = "none"
    /\ pynput_key = NoKey
    /\ kbEvents = << >>
    /\ elapsed = 0
    /\ captured = None
    /\ warned = FALSE
    /\ launched = 0
    /\ logged = ""

NextDriver == DriverStep \/ HelperExit

SpecDriver == InitDriver /\ [][NextDriver]_vars

\* the call runs on the single control thread, which always takes its next step;
\* nothing makes the helper exit
FairSpecDriver == SpecDriver /\ WF_vars(DriverStep)

\* merge_results on its own
MergeCombos == { << "a", FALSE, FALSE, FALSE >>, << "a", TRUE, FALSE, FALSE >> }
MergeRecs ==
    { Rec(c[1], c[2], c[3], c[4], vk, << >>, << >>) : c \in MergeCombos, vk \in { 65, 66 } }
    \cup { NonDict }

InitMerge ==
    /\ prog = "merge"
    /\ pc = "merge"
    /\ file \in { AbsentFile, CorruptFile }
               \cup { Snapshot(Len(recs), recs) : recs \in BoundedSeqs(MergeRecs, MaxMergeLen) }
    /\ file0 = file
    /\ existing_combos = { }
    /\ work = << >>
    /\ idx = 0
    /\ results \in BoundedSeqs(MergeRecs, MaxMergeLen)
    /\ all_results = << >>
    /\ output_data = AbsentFile
    /\ successful = 0
    /\ failed = 0
    /\ driven = << >>
    /\ exit_code = << >>
    /\ summary = FALSE
    /\ writes = 0
    /\ txt_written = FALSE
    /\ outcomes = << >>
    /\ exe_path = ExeLocations[1]
    /\ prompted = TRUE
    /\ response = << "y" >>
    /\ cancelled = FALSE
    /\ DriverIdle

NextMerge == RetryMerge

SpecMerge == InitMerge /\ [][NextMerge]_vars

\* the generator on its own, over the whole catalogs: each step is one pass through
\* the body of the inner loop, all_combos.append((key, ctrl, shift, alt))
GenAppend_SkipsLastModifier ==
    /\ pc = "generate"
    /\ Len(work) < Len(US_KEYS) * Len(MODIFIERS)
    /\ LET key == US_KEYS[(Len(work) \div Len(MODIFIERS)) + 1]
           m == MODIFIERS[(Len(work) % (Len(MODIFIERS) - 1)) + 1]
       IN  work' = Append(work, << key, m[1], m[2], m[3] >>)
    /\ UNCHANGED << prog, pc, idx, results, successful, failed, driven, summary, outcomes,
                    exit_code, storeVars, promptVars, drvVars >>

GenAppend ==
    /\ pc = "generate"
    /\ Len(work) < Len(US_KEYS) * Len(MODIFIERS)
    /\ LET key == US_KEYS[(Len(work) \div Len(MODIFIERS)) + 1]
           m == MODIFIERS[(Len(work) % Len(MODIFIERS)) + 1]
       IN  work' = Append(work, << key, m[1], m[2], m[3] >>)
    /\ UNCHANGED << prog, pc, idx, results, successful, failed, driven, summary, outcomes,
                    exit_code, storeVars, promptVars, drvVars >>

\* both loops are exhausted: return all_combos
GenReturn ==
    /\ pc = "generate"
    /\ Len(work) = Len(US_KEYS) * Len(MODIFIERS)
    /\ pc' = "generated"
    /\ UNCHANGED << prog, loopVars, exit_code, storeVars, promptVars, drvVars >>

InitGen ==
    /\ prog = "generate"
    /\ pc = "generate"
    /\ file = AbsentFile
    /\ file0 = file
    /\ OrchFresh
    /\ PromptFresh
    /\ DriverIdle

NextGen == GenAppend \/ GenReturn

SpecGen == InitGen /\ [][NextGen]_vars

\* the end of either orchestrator on its own, from the end of the loop to the
\* written file, for a space of two keys
SortSpace == CombinationsOf(<< US_KEYS[1], US_KEYS[2] >>, Mods)
SortRecs == { Rec(c[1], c[2], c[3], c[4], 66, << >>, << >>) : c \in Range(SortSpace) }

\* the loop has gone through work_list and captured the combinations of S
LoopDone(work_list, S) ==
    /\ work = work_list
    /\ idx = Len(work_list)
    /\ driven = work_list
    /\ outcomes = [ i \in DOMAIN work_list |-> work_list[i] \in S ]
    /\ results = [ i \in DOMAIN SelectSeq(work_list, LAMBDA c : c \in S) |->
                      LET c == SelectSeq(work_list, LAMBDA x : x \in S)[i]
                      IN  BuildResult(c[1], c[2], c[3], c[4], JVk) ]
    /\ successful = Cardinality(S)
    /\ failed = Len(work_list) - Cardinality(S)
    /\ summary = TRUE
    /\ dpc = "idle"
    /\ dkey = work_list[Len(work_list)][1]
    /\ dmods = << work_list[Len(work_list)][2], work_list[Len(work_list)][3],
                  work_list[Len(work_list)][4] >>
    /\ proc = "exited"
    /\ pynput_key = map_key_to_pynput(work_list[Len(work_list)][1])
    /\ kbEvents = << >>
    /\ elapsed = 0
    /\ captured = (IF work_list[Len(work_list)] \in S THEN JVk ELSE None)
    /\ warned = FALSE
    /\ launched = Len(work_list)
    /\ logged = ""

InitSort ==
    /\ prog \in { "sweep", "retry" }
    /\ PromptPassed
    /\ file \in (IF prog = "sweep" THEN SweepPriorFiles
                  ELSE { AbsentFile } \cup { Snapshot(Len(recs), recs) :
                                               recs \in BoundedSeqs(SortRecs, MaxStore) })
    /\ file0 = file
    /\ all_results = << >>
    /\ output_data = AbsentFile
    /\ exit_code = << >>
    /\ writes = 0
    /\ txt_written = FALSE
    /\ IF prog = "sweep"
       THEN /\ pc = "sort"
            /\ existing_combos = { }
            /\ \E S \in SUBSET Range(SortSpace) : LoopDone(SortSpace, S)
       ELSE /\ pc = "merge"
            /\ existing_combos = load_existing_combinations(file)
            /\ \E S \in (SUBSET (Range(SortSpace) \ load_existing_combinations(file))) \ { { } } :
                 LoopDone(SelectSeq(SortSpace, LAMBDA c : c \notin load_existing_combinations(file)), S)

NextSort ==
    \/ SweepSort
    \/ RetryMerge
    \/ RetryBuildOutput
    \/ WriteOpen
    \/ WriteDump
    \/ Finish

SpecSort == InitSort /\ [][NextSort]_vars

(***************************************************************************)
(* Properties.                                                             *)
(***************************************************************************)
\* the records of a list that belong to Combination c, in order
RecsOf(recs, c) == SelectSeq(recs, LAMBDA r : r.dict /\ combo_key(r) = c)

\* merge_results has returned
Merged == pc = "build_output"

C2_MergedIsDuplicateFree ==
    Merged => \A c \in CombosOf(all_results) : Len(RecsOf(all_results, c)) <= 1

\* the retry orchestrator has loaded the store and computed the missing combinations
\* (a run that found no helper binary ends with code 1 before it loads)
RetryHasLoaded ==
    /\ prog = "retry"
    /\ pc \notin { "find_exe", "load" }
    /\ ~(pc = "exit" /\ exit_code = << 1 >>)

\* C3: the retry loop drives only combinations that are not in the set it loaded;
\* its work list holds each combination of the space that is missing from that set
\* exactly once, the calls follow that list, and a loop that ends has driven all
\* of it.
C3_RetryDrivesExactlyTheMissing ==
    RetryHasLoaded =>
        /\ Range(driven) \cap existing_combos = { }
        /\ Range(work) = Space \ existing_combos
        /\ Len(work) = Cardinality(Space \ existing_combos)
        /\ driven = SubSeq(work, 1, idx)
        /\ (summary => driven = work)

\* a retry loop that has ended on a store that held some combinations and lacked others
C3_Witness ==
    /\ prog = "retry"
    /\ summary
    /\ existing_combos # { }
    /\ driven # << >>

\* C4: a snapshot the retry orchestrator has written holds at least as many records
\* as the store held when the run started.
C4_RetryNeverShrinksStore ==
    (prog = "retry" /\ writes > 0) =>
        /\ file.state = "ok"
        /\ Len(file.combinations) >= Len(file0.combinations)
        /\ file.total_combinations >= file0.total_combinations

\* a retry that wrote a store which held records before, after a capture succeeded
C4_Witness ==
    /\ prog = "retry"
    /\ writes > 0
    /\ Len(file0.combinations) > 0
    /\ successful > 0

\* C5: when capture_key_combo returns, the helper it launched has exited or has
\* been killed.
C5_NoHelperOutlivesTheCall == dpc = "returned" => proc \in { "exited", "killed" }

\* a call that returned a record's data after the helper exited by itself
C5_Witness == dpc = "returned" /\ proc = "exited" /\ HasVk(captured)

\* C6: if the helper the call has launched never exits, the call still returns: the
\* wait expires, the helper is killed and the call returns None.
C6_NeverExitingHelperTimesOut ==
    (<>(proc = "running") /\ [](proc # "exited")) =>
        <>(dpc = "returned" /\ proc = "killed" /\ captured = None)

\* a call that returned after the whole timeout went by with the helper running
C6_Witness ==
    /\ dpc = "returned"
    /\ proc = "killed"
    /\ elapsed >= communicate_timeout
    /\ captured = None

\* C7 as stated: once a loop has started, the run does not end before every
\* combination of the work list has been driven and the summary has been logged.
C7_LoopSurvivesEveryOutcome ==
    (prog \in { "sweep", "retry" } /\ idx > 0 /\ exit_code # << >>) =>
        (summary /\ driven = work)

\* C8 as stated: a returned value without a vk field is accounted as a failure, with
\* no record created and the loop going on.
C8_MissingVkIsAFailure ==
    [][ (pc = "in_driver" /\ dpc = "returned" /\ ~HasVk(captured)) =>
            (failed' = failed + 1 /\ results' = results /\ pc' = "loop") ]_vars

\* C9: for a key the Key Mapper cannot map, the call issues no press and no
\* release, goes no further than the mapping step, and returns None with the
\* helper killed (or gone by itself).
C9_UnmappedKeyIsNotSimulated ==
    map_key_to_pynput(dkey) = NoKey =>
        /\ kbEvents = << >>
        /\ dpc \in { "start", "map", "returned", "raised" }
        /\ (dpc = "returned" => captured = None /\ proc \in { "killed", "exited" })

\* a call for an unmapped key that has returned with the helper killed
C9_Witness == dpc = "returned" /\ map_key_to_pynput(dkey) = NoKey /\ proc = "killed"

\* where in kbEvents event e was issued (0: not issued)
At(e) == IF \E i \in DOMAIN kbEvents : kbEvents[i] = e
         THEN CHOOSE i \in DOMAIN kbEvents : kbEvents[i] = e
         ELSE 0
Issued(e) == At(e) > 0
\* e was issued, and before f if f was issued at all
Before(e, f) == Issued(e) /\ (Issued(f) => At(e) < At(f))
ModKeys == << CtrlKey, ShiftKey, AltKey >>

\* C10: the events a call issues are, in this order: the presses of the active
\* modifiers ctrl, shift, alt; the press of the target key, with every active
\* modifier down; the release of the target key, before any modifier is released;
\* the releases of the active modifiers alt, shift, ctrl.  No event touches an
\* inactive modifier, no event is issued twice, and a call that reaches the wait for
\* output has issued all of them.
C10_ChordOrdering ==
    /\ \A i, j \in DOMAIN kbEvents : kbEvents[i] = kbEvents[j] => i = j
    /\ \A i \in DOMAIN kbEvents : kbEvents[i].key \in Range(ModKeys) \cup { pynput_key }
    /\ \A m \in 1 .. 3 :
         ~dmods[m] => ~Issued(Press(ModKeys[m])) /\ ~Issued(Release(ModKeys[m]))
    /\ \A m, n \in 1 .. 3 :
         (m < n /\ Issued(Press(ModKeys[n])) /\ dmods[m]) =>
             Before(Press(ModKeys[m]), Press(ModKeys[n]))
    /\ \A m \in 1 .. 3 :
         (Issued(Press(pynput_key)) /\ dmods[m]) =>
             /\ Before(Press(ModKeys[m]), Press(pynput_key))
             /\ ~(Issued(Release(ModKeys[m])) /\ At(Release(ModKeys[m])) < At(Press(pynput_key)))
    /\ Issued(Release(pynput_key)) => Before(Press(pynput_key), Release(pynput_key))
    /\ \A m \in 1 .. 3 :
         Issued(Release(ModKeys[m])) => Before(Release(pynput_key), Release(ModKeys[m]))
    /\ \A m, n \in 1 .. 3 :
         (m < n /\ Issued(Release(ModKeys[m])) /\ dmods[n]) =>
             Before(Release(ModKeys[n]), Release(ModKeys[m]))
    /\ dpc = "communicate" =>
         /\ Issued(Press(pynput_key)) /\ Issued(Release(pynput_key))
         /\ \A m \in 1 .. 3 :
              dmods[m] => Issued(Press(ModKeys[m])) /\ Issued(Release(ModKeys[m]))

\* a call with all three modifiers active that has issued its eight events
C10_Witness ==
    /\ dpc = "communicate"
    /\ dmods = << TRUE, TRUE, TRUE >>
    /\ Len(kbEvents) = 8

\* the retry run may drive: there are missing combinations and the user answered y
RetryConfirmed == work # << >> /\ prompted /\ response = << "y" >>

\* C11: the retry orchestrator calls capture_key_combo, launches a helper, issues a
\* key event or touches the store file only when the missing list is not empty and
\* the user answered y at the prompt; with an empty missing list it ends without
\* prompting, and any other answer ends the run.
C11_RetrySafetyGate ==
    prog = "retry" =>
        /\ (\/ driven # << >>
            \/ dpc # "idle"
            \/ launched > 0
            \/ proc # "none"
            \/ kbEvents # << >>
            \/ writes > 0
            \/ file # file0) => RetryConfirmed
        /\ (RetryHasLoaded /\ work = << >>) =>
               (~prompted /\ pc = "exit" /\ exit_code = << 0 >>)
        /\ (prompted /\ response # << "y" >>) => pc = "exit"

\* a retry run that ended on the answer "yes", which is not the confirmation
C11_Witness ==
    /\ prog = "retry"
    /\ prompted
    /\ response = << "y", "e", "s" >>
    /\ pc = "exit"
    /\ work # << >>

\* C12: when find_capture_keys_exe finds no helper binary, either orchestrator ends
\* with exit code 1, having launched no process, issued no key event, shown no
\* prompt and left the store file as it was.
C12_MissingHelperIsFatal ==
    (prog \in { "sweep", "retry" } /\ pc # "find_exe" /\ exe_path = NoPath) =>
        /\ pc = "exit"
        /\ exit_code = << 1 >>
        /\ launched = 0
        /\ proc = "none"
        /\ dpc = "idle"
        /\ driven = << >>
        /\ kbEvents = << >>
        /\ ~prompted
        /\ writes = 0
        /\ file = file0

\* a retry run that ended for want of a helper binary, on a store that held records
C12_Witness ==
    /\ prog = "retry"
    /\ pc = "exit"
    /\ exe_path = NoPath
    /\ Len(file0.combinations) > 0

\* C13 as stated: a run the user cancelled at the confirmation step ends with exit
\* code 1, in either orchestrator.
C13_CancelExitsWithOne == (cancelled /\ exit_code # << >>) => exit_code = << 1 >>

\* C14: a full sweep writes the store file at most once, and the file differs from
\* what it was before the run only after capture_key_combo has been called for every
\* combination of the space and the loop has ended.
C14_NoPartialPersistence ==
    prog = "sweep" =>
        /\ writes <= 1
        /\ (file # file0 \/ writes > 0 \/ pc \in { "write_dump", "written" }) =>
               /\ summary
               /\ driven = generate_all_combinations
               /\ Len(outcomes) = Len(driven)

\* a full sweep that has written its store after a run in which a capture failed
C14_Witness ==
    /\ prog = "sweep"
    /\ writes = 1
    /\ failed > 0
    /\ file # file0

\* the combinations whose call returned a capture in this run
Succeeded == { driven[i] : i \in { j \in DOMAIN outcomes : outcomes[j] } }

\* C15: the store a full sweep has written holds exactly one record for each
\* combination whose capture succeeded in this run, and nothing else: no entry of
\* the prior store is in it.
C15_SweepOverwrites ==
    (prog = "sweep" /\ writes > 0) =>
        /\ file.state = "ok"
        /\ Sortable(file.combinations)
        /\ CombosOf(file.combinations) = Succeeded
        /\ \A c \in Succeeded : Len(RecsOf(file.combinations, c)) = 1
        /\ Len(file.combinations) = Cardinality(Succeeded)
        /\ Range(file.combinations) \cap Range(file0.combinations) = { }

\* a full sweep written over a store whose one record belongs to a combination that
\* failed in this run, while another combination succeeded
C15_Witness ==
    /\ prog = "sweep"
    /\ writes > 0
    /\ file0.combinations # << >>
    /\ \E i \in DOMAIN outcomes :
         ~outcomes[i] /\ driven[i] \in CombosOf(file0.combinations)
    /\ Succeeded # { }

\* C16: in a snapshot either orchestrator has written, total_combinations is the
\* length of the combinations list.
C16_TotalEqualsLength ==
    writes > 0 =>
        /\ file.state = "ok"
        /\ file.total_combinations = Len(file.combinations)

\* a retry run that wrote more records than it captured
C16_Witness ==
    /\ prog = "retry"
    /\ writes > 0
    /\ Len(file.combinations) > Len(results)

\* C17 as stated: the records of a written store are in the order of ctrl, then
\* shift, then alt, then key name, whichever orchestrator wrote it.
C17_CanonicalOrder ==
    writes > 0 =>
        \A i, j \in DOMAIN file.combinations :
            i < j => ~SeqLess(SweepSortKey(file.combinations[j]),
                              SweepSortKey(file.combinations[i]))

\* the modifier states there are
AllModifierStates == { << c, sh, a >> : c \in BOOLEAN, sh \in BOOLEAN, a \in BOOLEAN }

\* C18: the list the generator returns holds every (key, modifier state) of the two
\* catalogs exactly once; the modifier catalog is the 8 modifier states, the list
\* has |US_KEYS| x 8 entries, and it is the list both orchestrators go through.
C18_GeneratorCompleteAndDuplicateFree ==
    /\ \A i \in 1 .. Len(work) - 1 : work[i] # work[Len(work)]
    /\ pc = "generated" =>
        /\ \A k \in Range(US_KEYS) : \A m \in Range(MODIFIERS) :
             Cardinality({ i \in DOMAIN work : work[i] = << k, m[1], m[2], m[3] >> }) = 1
        /\ Range(MODIFIERS) = AllModifierStates
        /\ Cardinality(Range(MODIFIERS)) = 8
        /\ Len(work) = Cardinality(Range(US_KEYS)) * 8
        /\ work = CombinationsOf(US_KEYS, MODIFIERS)

\* the generator has returned the list of the whole space
C18_Witness == pc = "generated" /\ Len(work) = Len(US_KEYS) * Len(MODIFIERS) /\ Len(work) > 0

\* the names of the catalog by the branch of the mapper they belong to
SpecialKeys == DOMAIN special_map
FunctionKeys ==
    { "f1", "f2", "f3", "f4", "f5", "f6", "f7", "f8", "f9", "f10", "f11", "f12" }
\* the Key Mapper has returned in this call
MapperReturned == dpc \notin { "idle", "start", "map", "raised" }

\* C19: for every key name of the catalog the Key Mapper returns a representation,
\* never None, the one any other call for that name returns: a Key constant for the
\* named special keys and f1..f12, a KeyCode of the one character for every other
\* name; for "f" it is the KeyCode of f.
C19_MapperTotalOnCatalog ==
    (dkey \in Range(US_KEYS) /\ MapperReturned) =>
        /\ pynput_key # NoKey
        /\ pynput_key = map_key_to_pynput(dkey)
        /\ dkey \in SpecialKeys => pynput_key = KeyConst(special_map[dkey])
        /\ dkey \in FunctionKeys => pynput_key = KeyConst(Chars(dkey))
        /\ dkey \notin SpecialKeys \cup FunctionKeys =>
               /\ Len(Chars(dkey)) = 1
               /\ pynput_key = KeyCodeFromChar(Chars(dkey))
        /\ dkey = "f" => pynput_key = KeyCodeFromChar(<< "f" >>)

\* a call for the letter f that went on to simulate a character key
C19_Witness ==
    /\ dkey = "f"
    /\ dpc = "communicate"
    /\ pynput_key.kind = "KeyCode"
    /\ Len(kbEvents) >= 2

\* C20 as stated: for a key name that is not in the catalog the Key Mapper returns
\* None.
C20_OutOfCatalogIsUnmapped ==
    (dkey \notin Range(US_KEYS) /\ MapperReturned) => pynput_key = NoKey

\* C21: merging the new list into the list a merge of it has returned changes
\* nothing: MergeLists(MergeLists(A, B), B) = MergeLists(A, B), for the existing list
\* A of the file and the new list B.
C21_MergeIdempotent ==
    Merged =>
        /\ all_results = MergeLists(ExistingResults(file), results)
        /\ MergeLists(all_results, results) = all_results

\* a merge that appended a new record and turned down another one, whose
\* Combination the existing list holds
C21_Witness ==
    /\ Merged
    /\ Len(all_results) > Len(ExistingResults(file))
    /\ \E i \in DOMAIN results :
         /\ results[i].dict
         /\ combo_key(results[i]) \in CombosOf(ExistingResults(file))

\* a store file load_existing_combinations cannot read through: absent, not
\* loadable, or holding an entry that is no well-formed record
Unloadable(f) == f.state # "ok" \/ \E i \in DOMAIN f.combinations : ~f.combinations[i].dict

\* C22: on a store file that is absent, unparsable or holds a malformed entry, the
\* load returns the empty set and raises nothing: the run goes on to the prompt with
\* the whole combination space as its missing list, and it cannot end in an
\* exception before the loop has called the driver.
C22_LoadNeverFails ==
    (prog = "retry" /\ Unloadable(file0)) =>
        /\ pc = "crashed" => driven # << >>
        /\ RetryHasLoaded =>
               /\ existing_combos = { }
               /\ work = generate_all_combinations
               /\ pc = "exit" => prompted

\* a retry run that drives the space on a file holding a record and a malformed entry
C22_Witness ==
    /\ RetryHasLoaded
    /\ pc = "in_driver"
    /\ file0.state = "ok"
    /\ \E i, j \in DOMAIN file0.combinations :
         ~file0.combinations[i].dict /\ file0.combinations[j].dict
    /\ work = generate_all_combinations

\* C23 as stated: at every moment the store file holds either the snapshot it held
\* when the run started or the complete snapshot the run writes, never an empty or
\* partly written file.
C23_ReaderSeesWholeSnapshot ==
    \/ file = file0
    \/ /\ writes > 0
       /\ file.state = "ok"
       /\ file.generated_at = "now"

\* a well-formed store holding a duplicate-free subset of the space
WellFormedStore(f) ==
    /\ f.state = "ok"
    /\ \A i \in DOMAIN f.combinations : f.combinations[i].dict
    /\ \A i, j \in DOMAIN f.combinations :
         i # j => combo_key(f.combinations[i]) # combo_key(f.combinations[j])
    /\ CombosOf(f.combinations) \subseteq Space

\* recs holds exactly one record for every Combination of the space
OnePerCombination(recs) ==
    /\ \A i \in DOMAIN recs : recs[i].dict
    /\ \A c \in Space : Len(RecsOf(recs, c)) = 1
    /\ Len(recs) = Cardinality(Space)

\* C24: a confirmed retry run on a well-formed store holding a duplicate-free subset
\* S of the space, in which every call so far returned a capture: the calls are for
\* Combinations missing from S, each once; once the loop has ended they are exactly
\* the missing ones; the run writes the store once, and the written store holds
\* exactly one record for every Combination of the space.  The run cannot end in an
\* exception before it has written the store.
C24_RetryRestoresFullSpace ==
    ( /\ prog = "retry"
      /\ WellFormedStore(file0)
      /\ RetryConfirmed
      /\ dpc # "raised"
      /\ \A i \in DOMAIN outcomes : outcomes[i] ) =>
        /\ Range(driven) \subseteq Space \ CombosOf(file0.combinations)
        /\ \A i, j \in DOMAIN driven : i # j => driven[i] # driven[j]
        /\ summary => Range(driven) = Space \ CombosOf(file0.combinations)
        /\ writes > 0 =>
               /\ file.state = "ok"
               /\ OnePerCombination(file.combinations)
               /\ file.total_combinations = Cardinality(Space)
        /\ pc \in { "exit", "crashed" } => writes = 1

\* a retry run that has ended after filling the one gap of a store with a record
C24_Witness ==
    /\ prog = "retry"
    /\ WellFormedStore(file0)
    /\ file0.combinations # << >>
    /\ RetryConfirmed
    /\ \A i \in DOMAIN outcomes : outcomes[i]
    /\ pc = "exit"
    /\ writes = 1

\* the combinations whose call returned no capture in this run
Failures == { driven[i] : i \in { j \in DOMAIN outcomes : ~outcomes[j] } }

\* C25: after a full sweep in which the captures of exactly the Combinations of F
\* failed, successful = |space| - |F|, failed = |F|, and the two add up to the
\* length of the generator's list; the written store holds exactly the Combinations
\* of the space that are not in F; the gap report computed from that store lists
\* exactly F, and so does the missing list the retry orchestrator computes from it.
C25_FailuresAccountedAndReported ==
    (prog = "sweep" /\ writes > 0) =>
        /\ Range(driven) = Space
        /\ successful = Cardinality(Space) - Cardinality(Failures)
        /\ failed = Cardinality(Failures)
        /\ successful + failed = Len(generate_all_combinations)
        /\ \A i \in DOMAIN file.combinations : file.combinations[i].dict
        /\ CombosOf(file.combinations) = Space \ Failures
        /\ analyze_failed(file) = Failures
        /\ Range(find_failed_combinations(load_existing_combinations(file))) = Failures

\* a sweep that has written its store after one capture failed and one succeeded
C25_Witness ==
    /\ prog = "sweep"
    /\ writes > 0
    /\ Failures # { }
    /\ Succeeded # { }
    /\ analyze_failed(file) = Failures

\* the keys the call holds down: pressed more often than released
Held ==
    { k \in { kbEvents[i].key : i \in DOMAIN kbEvents } :
        Cardinality({ i \in DOMAIN kbEvents : kbEvents[i] = Press(k) })
          > Cardinality({ i \in DOMAIN kbEvents : kbEvents[i] = Release(k) }) }

\* C26 as stated: the loop calls the driver only when no helper is alive and no call
\* is under way, and it takes a call as over only when the helper is no longer
\* alive and every key the call pressed has been released.
C26_OneCaptureAtATime ==
    [][ /\ (pc = "loop" /\ pc' = "in_driver") => (proc # "running" /\ dpc = "idle")
        /\ (pc = "in_driver" /\ pc' # "in_driver") => (proc # "running" /\ Held = { }) ]_vars

Sel(flag, e) == IF flag THEN << e >> ELSE << >>
\* the whole press and release sequence of a call (lines 261-291)
FullSimulation ==
    Sel(dmods[1], Press(CtrlKey)) \o Sel(dmods[2], Press(ShiftKey))
    \o Sel(dmods[3], Press(AltKey))
    \o << Press(pynput_key), Release(pynput_key) >>
    \o Sel(dmods[3], Release(AltKey)) \o Sel(dmods[2], Release(ShiftKey))
    \o Sel(dmods[1], Release(CtrlKey))

\* C27: a call that found no window has logged the warning and goes on: unless a
\* later step raises, it returns only from the wait for output, after the whole
\* press and release sequence; it returns None only when the wait has timed out (the
\* full timeout has passed) or the output was empty or unparsable, and the parsed
\* output otherwise.
C27_FocusFailureIsSoft ==
    (warned /\ logged # "error") =>
        /\ dpc \in (TrySteps \ { "focus" }) \cup { "returned" }
        /\ dpc = "returned" =>
               /\ kbEvents = FullSimulation
               /\ (captured = None) <=> (logged \in { "timeout", "empty", "unparsable" })
               /\ logged = "timeout" => (elapsed >= communicate_timeout /\ proc = "killed")
               /\ logged # "timeout" => proc = "exited"

\* a call with Ctrl that found no window and returned a capture all the same
C27_Witness ==
    /\ warned
    /\ dpc = "returned"
    /\ dmods[1]
    /\ HasVk(captured)
    /\ kbEvents = FullSimulation

\* C28 as stated: no step of a call lets an exception leave capture_key_combo.
C28_NoExceptionEscapes == dpc # "raised"

\* C29 as stated: when a call has returned, whatever the path, no key it pressed is
\* still down.
C29_NoKeyLeftHeld == dpc = "returned" => Held = { }

\* C30: a retry run in which no call returned a capture does not get to the merge,
\* writes neither the store file nor the text file, and leaves the store file as it
\* was: records, count and timestamp.
C30_FruitlessRetryWritesNothing ==
    (prog = "retry" /\ \A i \in DOMAIN outcomes : ~outcomes[i]) =>
        /\ file = file0
        /\ writes = 0
        /\ ~txt_written
        /\ pc \notin { "merge", "build_output", "write_open", "write_dump", "written" }

\* a retry run on a store with records that has ended after every call failed
C30_Witness ==
    /\ prog = "retry"
    /\ pc = "exit"
    /\ summary
    /\ driven # << >>
    /\ \A i \in DOMAIN outcomes : ~outcomes[i]
    /\ file0.state = "ok"
    /\ file0.combinations # << >>
    /\ file = file0

\* how many entries of recs are equal to r, field by field
CountOf(recs, r) == Cardinality({ i \in DOMAIN recs : recs[i] = r })

\* C31: whatever the calls of a retry run returned, every record the store held when
\* the run started is in the store, with every field as it was and as many times as
\* it was, at every moment but the one between the open and the dump of the write
\* (see C23), and so when the run has ended.
C31_RetryPreservesExisting ==
    (prog = "retry" /\ file0.state = "ok" /\ pc # "write_dump") =>
        /\ file.state = "ok"
        /\ \A i \in DOMAIN file0.combinations :
             CountOf(file.combinations, file0.combinations[i])
               = CountOf(file0.combinations, file0.combinations[i])

\* a retry run that has ended after writing a store with a record more than the
\* records it started on
C31_Witness ==
    /\ prog = "retry"
    /\ pc = "exit"
    /\ writes = 1
    /\ file0.combinations # << >>
    /\ Len(file.combinations) > Len(file0.combinations)
    /\ \E i \in DOMAIN file.combinations : file.combinations[i] = file0.combinations[1]

\* the number a string of hexadecimal digits stands for
RECURSIVE HexValue(_)
HexValue(cs) ==
    IF cs = << >> THEN 0
    ELSE 16 * HexValue(SubSeq(cs, 1, Len(cs) - 1)) + (IndexIn(HexDigits, cs[Len(cs)]) - 1)

\* cs is a hexadecimal rendering of n: 0x, then digits that stand for n
RendersHex(cs, n) ==
    /\ Len(cs) >= 3
    /\ cs[1] = "0"
    /\ cs[2] = "x"
    /\ \A i \in 3 .. Len(cs) : cs[i] \in Range(HexDigits)
    /\ HexValue(SubSeq(cs, 3, Len(cs))) = n

\* the hex field is null exactly when the integer field is, and renders it otherwise
HexAgrees(hex, opt) ==
    /\ hex = << >> <=> opt = << >>
    /\ opt # << >> => (hex # << >> /\ RendersHex(hex[1], opt[1]))

\* C32 as stated: in every record either orchestrator has built, vk renders
\* vk_decimal, ascii_hex is null exactly when ascii is null and renders ascii
\* otherwise (0 included), and unicode_hex likewise with unicode.
C32_HexFieldsAgree ==
    \A i \in DOMAIN results :
        /\ results[i].vk # << >>
        /\ RendersHex(results[i].vk[1], results[i].vk_decimal)
        /\ HexAgrees(results[i].ascii_hex, results[i].ascii)
        /\ HexAgrees(results[i].unicode_hex, results[i].unicode)

====
